---------------------------- MODULE Spec2Model ----------------------------
(* A model of SharedMemory.h: the block allocator MemoryManager, the      *)
(* segment owner RemoteMemory and the segment client MemoryClient.        *)
(*                                                                         *)
(* Offsets are 0-based as in the source; a buffer is a sequence of bytes  *)
(* and the byte at offset k is element k + 1.  The AbortIf / AbortIfNot   *)
(* macros of abort.h are read as "if the condition holds (does not hold),  *)
(* return the given value".                                               *)
EXTENDS Integers, Sequences, FiniteSets, TLC

(* ---------------------------------------------------------------------- *)
(* Bounds                                                                  *)
(* ---------------------------------------------------------------------- *)

\* Largest pool capacity handed to MemoryManager::init.
MaxCap == 3

\* Number of ids one pool may issue (caps the counter _last_index).
MaxAllocs == 3

\* Byte values.
Byte == {0, 1}

\* The two orders in which memcpy may move the bytes of a copy.  The source
\* calls memcpy on ranges that can overlap, which is undefined; a build
\* copies either from the low end or from the high end.
CopyModes == {"fwd", "bwd"}

\* The null pointer; every other address is a positive number.
NULL == 0

\* The caller's buffer pointer handed to init: NULL or a real buffer.
Addrs == {NULL, 1}

VARIABLES
    pool,     \* the MemoryManager under test (its members)
    mem,      \* the bytes of the buffer behind pool._addr
    last,     \* the call that produced this state, with its result
    phase,    \* how the calls since init began (see Track)
    owners,   \* the RemoteMemory objects (their members)
    client,   \* the MemoryClient (its members)
    sys       \* the system: names, objects, descriptors, mappings, errno

poolVars == <<pool, mem, last, phase>>

shmVars == <<owners, client, sys>>

(* ---------------------------------------------------------------------- *)
(* MemoryManager                                                           *)
(* ---------------------------------------------------------------------- *)

\* struct Block
Block(id, offset, size) == [id |-> id, offset |-> offset, size |-> size]

\* MemoryManager::MemoryManager
NewManager ==
    [addr |-> NULL, in_use |-> <<>>, is_init |-> FALSE, last_index |-> 0,
     size |-> 0, vacant |-> <<>>]

\* Sum of the sizes of a list of blocks.
RECURSIVE SumSizes(_)
SumSizes(blocks) ==
    IF blocks = <<>> THEN 0
    ELSE Head(blocks).size + SumSizes(Tail(blocks))

\* The list without its element at position i (std::list::erase).
Erase(list, i) ==
    SubSeq(list, 1, i - 1) \o SubSeq(list, i + 1, Len(list))

\* lookup that falls back on the last block in use when none has the id.
lookup_last(p, id) ==
    IF \E i \in 1..Len(p.in_use) : p.in_use[i].id = id
    THEN CHOOSE i \in 1..Len(p.in_use) : p.in_use[i].id = id
    ELSE Len(p.in_use)

\* MemoryManager::lookup: position of the first block in use with this id,
\* 0 when there is none.
lookup(p, id) ==
    IF \E i \in 1..Len(p.in_use) : p.in_use[i].id = id
    THEN CHOOSE i \in 1..Len(p.in_use) :
            /\ p.in_use[i].id = id
            /\ \A j \in 1..(i - 1) : p.in_use[j].id # id
    ELSE 0

\* std::memcpy(dst, src, n) inside one buffer, byte by byte, from the low
\* end ("fwd") or from the high end ("bwd").
RECURSIVE memcpy(_, _, _, _, _, _)
memcpy(m, dst, src, n, mode, k) ==
    IF k >= n THEN m
    ELSE LET i == IF mode = "fwd" THEN k ELSE n - 1 - k
         IN  memcpy([m EXCEPT ![dst + i + 1] = m[src + i + 1]],
                    dst, src, n, mode, k + 1)

\* CopyIn that leaves out the last byte.
CopyIn_short(m, offset, buf, n) ==
    [k \in 1..Len(m) |->
        IF k > offset /\ k < offset + n THEN buf[k - offset] ELSE m[k]]

\* std::memcpy from a caller's buffer into the pool at an offset.
CopyIn(m, offset, buf, n) ==
    [k \in 1..Len(m) |->
        IF k > offset /\ k <= offset + n THEN buf[k - offset] ELSE m[k]]

\* std::memcpy from the pool at an offset into a caller's buffer.
CopyOut(m, offset, n) == [k \in 1..n |-> m[offset + k]]

\* MemoryManager::init
init(p, addr, size) ==
    IF p.is_init THEN [pool |-> p, ret |-> FALSE]
    ELSE IF addr = NULL \/ size = 0 THEN [pool |-> p, ret |-> FALSE]
    ELSE [pool |-> [p EXCEPT !.addr = addr, !.size = size,
                             !.vacant = Append(p.vacant, Block(-1, 0, size)),
                             !.is_init = TRUE],
          ret |-> TRUE]

\* _allocate without "_vacant.erase(iter)": a vacancy of no byte stays.
_allocate_keep_vacancy(p, i, size) ==
    LET v == p.vacant[i]
    IN  [pool |-> [p EXCEPT
                     !.in_use = Append(p.in_use,
                                       Block(p.last_index, v.offset, size)),
                     !.vacant = [p.vacant EXCEPT
                                   ![i] = Block(v.id, v.offset + size,
                                                v.size - size)],
                     !.last_index = p.last_index + 1],
         ret |-> p.last_index]

\* _allocate without "iter->offset += size": the vacancy keeps its offset.
_allocate_same_offset(p, i, size) ==
    LET v   == p.vacant[i]
        rem == v.size - size
    IN  [pool |-> [p EXCEPT
                     !.in_use = Append(p.in_use,
                                       Block(p.last_index, v.offset, size)),
                     !.vacant = IF rem = 0 THEN Erase(p.vacant, i)
                                ELSE [p.vacant EXCEPT
                                        ![i] = Block(v.id, v.offset, rem)],
                     !.last_index = p.last_index + 1],
         ret |-> p.last_index]

\* MemoryManager::_allocate, on the vacancy at position i.
_allocate(p, i, size) ==
    LET v   == p.vacant[i]
        rem == v.size - size
        used == Append(p.in_use, Block(p.last_index, v.offset, size))
    IN  [pool |-> [p EXCEPT
                     !.in_use = used,
                     !.vacant = IF rem = 0 THEN Erase(p.vacant, i)
                                ELSE [p.vacant EXCEPT
                                        ![i] = Block(v.id, v.offset + size, rem)],
                     !.last_index = p.last_index + 1],
         ret |-> p.last_index]

\* The loop of MemoryManager::defrag from block i on, cursor at offset.
RECURSIVE DefragLoop(_, _, _, _, _)
DefragLoop(in_use, m, i, offset, modes) ==
    IF i > Len(in_use) THEN [in_use |-> in_use, mem |-> m, offset |-> offset]
    ELSE LET b  == in_use[i]
             m2 == IF offset # b.offset
                   THEN memcpy(m, offset, b.offset, b.size, modes[i], 0)
                   ELSE m
         IN  DefragLoop([in_use EXCEPT ![i] = Block(b.id, offset, b.size)],
                        m2, i + 1, offset + b.size, modes)

\* defrag that packs the blocks in the order of their offsets, not in the
\* order of the list.
defrag_by_offset(p, m, modes) ==
    LET n == Len(p.in_use)
        f == CHOOSE g \in [1..n -> 1..n] :
                \A i, j \in 1..n :
                    i < j => p.in_use[g[i]].offset < p.in_use[g[j]].offset
        r == DefragLoop([i \in 1..n |-> p.in_use[f[i]]], m, 1, 0, modes)
    IN  [pool |-> [p EXCEPT !.in_use = r.in_use,
                            !.vacant = <<Block(-1, r.offset, p.size - r.offset)>>],
         mem |-> r.mem]

\* defrag without "_vacant.clear()": the merged vacancy is added to the
\* old ones.
defrag_keep_vacant(p, m, modes) ==
    LET r == DefragLoop(p.in_use, m, 1, 0, modes)
    IN  [pool |-> [p EXCEPT !.in_use = r.in_use,
                            !.vacant = Append(p.vacant,
                                Block(-1, r.offset, p.size - r.offset))],
         mem |-> r.mem]

\* MemoryManager::defrag
defrag(p, m, modes) ==
    LET r == DefragLoop(p.in_use, m, 1, 0, modes)
    IN  [pool |-> [p EXCEPT !.in_use = r.in_use,
                            !.vacant = <<Block(-1, r.offset, p.size - r.offset)>>],
         mem |-> r.mem]

\* FirstFit by offset: the fitting vacancy that lies lowest in the buffer.
FirstFit_lowest(p, size) ==
    IF \E i \in 1..Len(p.vacant) : p.vacant[i].size >= size
    THEN CHOOSE i \in 1..Len(p.vacant) :
            /\ p.vacant[i].size >= size
            /\ \A j \in 1..Len(p.vacant) :
                  (j # i /\ p.vacant[j].size >= size)
                      => \/ p.vacant[i].offset < p.vacant[j].offset
                         \/ p.vacant[i].offset = p.vacant[j].offset /\ i < j
    ELSE 0

\* Position of the first vacancy of at least size bytes, 0 when none.
FirstFit(p, size) ==
    IF \E i \in 1..Len(p.vacant) : p.vacant[i].size >= size
    THEN CHOOSE i \in 1..Len(p.vacant) :
            /\ p.vacant[i].size >= size
            /\ \A j \in 1..(i - 1) : p.vacant[j].size < size
    ELSE 0

\* Whether allocate(size) runs defrag in this state.
NeedsDefrag(p, size) ==
    /\ p.is_init
    /\ size <= p.size
    /\ size # 0
    /\ p.vacant # <<>>
    /\ FirstFit(p, size) = 0

\* Refused with ">=" for ">" in "size > _size".
Refused_whole(p, size) ==
    \/ ~p.is_init
    \/ size >= p.size
    \/ size = 0 \/ p.vacant = <<>>

\* The checks at the head of MemoryManager::allocate: whether the call
\* returns -1 before it looks for a vacancy.
Refused(p, size) ==
    \/ ~p.is_init
    \/ size > p.size
    \/ size = 0 \/ p.vacant = <<>>

\* MemoryManager::allocate
allocate(p, m, size, modes) ==
    IF Refused(p, size) THEN [pool |-> p, mem |-> m, ret |-> -1]
    ELSE IF FirstFit(p, size) # 0
    THEN LET a == _allocate(p, FirstFit(p, size), size)
         IN  [pool |-> a.pool, mem |-> m, ret |-> a.ret]
    ELSE LET d == defrag(p, m, modes)
         IN  IF d.pool.vacant[1].size >= size
             THEN LET a == _allocate(d.pool, 1, size)
                  IN  [pool |-> a.pool, mem |-> d.mem, ret |-> a.ret]
             ELSE [pool |-> d.pool, mem |-> d.mem, ret |-> -1]

\* free that hands the id of the freed block back to the counter.
free_reuse_id(p, id) ==
    IF ~p.is_init THEN [pool |-> p, ret |-> FALSE]
    ELSE IF lookup(p, id) = 0 THEN [pool |-> p, ret |-> FALSE]
    ELSE LET b == p.in_use[lookup(p, id)]
         IN  [pool |-> [p EXCEPT
                          !.vacant = Append(p.vacant, Block(-1, b.offset, b.size)),
                          !.in_use = Erase(p.in_use, lookup(p, id)),
                          !.last_index = id],
              ret |-> TRUE]

\* free without "_vacant.push_back(...)": the block's bytes are lost.
free_no_vacancy(p, id) ==
    IF ~p.is_init THEN [pool |-> p, ret |-> FALSE]
    ELSE IF lookup(p, id) = 0 THEN [pool |-> p, ret |-> FALSE]
    ELSE [pool |-> [p EXCEPT !.in_use = Erase(p.in_use, lookup(p, id))],
          ret |-> TRUE]

\* MemoryManager::free
free(p, id) ==
    IF ~p.is_init THEN [pool |-> p, ret |-> FALSE]
    ELSE IF lookup(p, id) = 0 THEN [pool |-> p, ret |-> FALSE]
    ELSE LET i == lookup(p, id)
             b == p.in_use[i]
         IN  [pool |-> [p EXCEPT
                          !.vacant = Append(p.vacant, Block(-1, b.offset, b.size)),
                          !.in_use = Erase(p.in_use, i)],
              ret |-> TRUE]

\* MemoryManager::read: the result and the bytes copied into the caller's
\* buffer (none when the call fails).
read(p, m, id, nbytes) ==
    IF ~p.is_init THEN [ret |-> FALSE, data |-> <<>>]
    ELSE IF lookup(p, id) = 0 THEN [ret |-> FALSE, data |-> <<>>]
    ELSE IF p.in_use[lookup(p, id)].size < nbytes
    THEN [ret |-> FALSE, data |-> <<>>]
    ELSE [ret |-> TRUE,
          data |-> CopyOut(m, p.in_use[lookup(p, id)].offset, nbytes)]

\* write without the check of nbytes against the block's size.
write_unchecked(p, m, id, buf, nbytes) ==
    IF ~p.is_init THEN [ret |-> FALSE, mem |-> m]
    ELSE IF lookup(p, id) = 0 THEN [ret |-> FALSE, mem |-> m]
    ELSE [ret |-> TRUE,
          mem |-> CopyIn(m, p.in_use[lookup(p, id)].offset, buf, nbytes)]

\* MemoryManager::write: the result and the buffer behind _addr afterwards.
write(p, m, id, buf, nbytes) ==
    IF ~p.is_init THEN [ret |-> FALSE, mem |-> m]
    ELSE IF lookup(p, id) = 0 THEN [ret |-> FALSE, mem |-> m]
    ELSE IF p.in_use[lookup(p, id)].size < nbytes
    THEN [ret |-> FALSE, mem |-> m]
    ELSE [ret |-> TRUE,
          mem |-> CopyIn(m, p.in_use[lookup(p, id)].offset, buf, nbytes)]

(* ---------------------------------------------------------------------- *)
(* The operating system: names, objects, descriptors, mappings, errno      *)
(* ---------------------------------------------------------------------- *)

\* What mmap returns when it fails.
MAP_FAILED == -1

\* The owner process (the RemoteMemory objects) and the client process
\* (the MemoryClient).
Procs == {"srv", "cli"}

\* The names callers pass, as sequences of characters: empty, with and
\* without the leading '/'.
RawNames == {<<>>, <<"a">>, <<"/", "a">>, <<"/", "b">>}

\* The name with its leading '/' (RemoteMemory::init, MemoryClient::attach).
Normalize(name) ==
    IF name[1] # "/" THEN <<"/">> \o name ELSE name

\* The names of the shared-memory namespace.
ShmNames == {Normalize(n) : n \in RawNames \ {<<>>}}

\* access_t
Access == {"none", "read_only", "read_write"}

\* Largest region size passed to create and attach.
MaxSize == 2

\* Number of descriptors shm_open hands out in one run, over both
\* processes; a descriptor number is not handed out twice.
MaxOpens == 3

\* The system before any call: no name published, nothing open or mapped,
\* errno zero in both processes.
NewOs ==
    [names |-> [n \in ShmNames |-> 0],
     objs  |-> <<>>,
     fds   |-> <<>>,
     maps  |-> <<>>,
     errno |-> [p \in Procs |-> 0],
     crashed |-> [p \in Procs |-> FALSE]]

\* Whether an object is still referred to: by a name, an open descriptor
\* or a mapping.
Referenced(os, obj) ==
    \/ \E n \in ShmNames : os.names[n] = obj
    \/ \E f \in 1..Len(os.fds) : os.fds[f].open /\ os.fds[f].obj = obj
    \/ \E a \in 1..Len(os.maps) : os.maps[a].mapped /\ os.maps[a].obj = obj

\* The system releases the storage of an object nothing refers to.
Reap(os) ==
    [os EXCEPT !.objs = [k \in 1..Len(os.objs) |->
                            IF Referenced(os, k) THEN os.objs[k] ELSE <<>>]]

\* A descriptor number that was closed, an address that was unmapped: what
\* it stood for is forgotten.
Closed == [proc |-> "", obj |-> 0, open |-> FALSE]
Unmapped ==
    [proc |-> "", obj |-> 0, size |-> 0, prot |-> "none", locked |-> FALSE,
     mapped |-> FALSE]

\* A failed system call: -1, errno set (any non-zero code is written 1).
OsFail(os, proc) == [os |-> [os EXCEPT !.errno[proc] = 1], ret |-> -1]

\* shm_open(name, O_CREAT | O_RDWR | O_EXCL, mode)
shm_create(os, proc, name, fail) ==
    IF fail \/ os.names[name] # 0 THEN OsFail(os, proc)
    ELSE [os |-> [os EXCEPT
                    !.objs  = Append(os.objs, <<>>),
                    !.names[name] = Len(os.objs) + 1,
                    !.fds   = Append(os.fds, [proc |-> proc,
                                             obj |-> Len(os.objs) + 1,
                                             open |-> TRUE])],
          ret |-> Len(os.fds) + 1]

\* shm_open with O_CREAT among the flags: a name that is not published is
\* published with a new object.
shm_open_creating(os, proc, name, fail) ==
    IF fail THEN OsFail(os, proc)
    ELSE IF os.names[name] = 0 THEN shm_create(os, proc, name, fail)
    ELSE [os |-> [os EXCEPT
                    !.fds = Append(os.fds, [proc |-> proc,
                                            obj |-> os.names[name],
                                            open |-> TRUE])],
          ret |-> Len(os.fds) + 1]

\* shm_open(name, oflag, 0) of an existing object
shm_open(os, proc, name, fail) ==
    IF fail \/ os.names[name] = 0 THEN OsFail(os, proc)
    ELSE [os |-> [os EXCEPT
                    !.fds = Append(os.fds, [proc |-> proc,
                                            obj |-> os.names[name],
                                            open |-> TRUE])],
          ret |-> Len(os.fds) + 1]

\* Whether fd is an open descriptor of the process.
IsOpen(os, proc, fd) ==
    fd \in 1..Len(os.fds) /\ os.fds[fd].open /\ os.fds[fd].proc = proc

\* Whether addr is the start of a live mapping of the process.
IsMapped(os, proc, addr) ==
    addr \in 1..Len(os.maps) /\ os.maps[addr].mapped /\ os.maps[addr].proc = proc

\* ftruncate(fd, size): the object gets size bytes, new ones zero.
ftruncate(os, proc, fd, size, fail) ==
    IF fail \/ ~IsOpen(os, proc, fd) THEN OsFail(os, proc)
    ELSE LET obj == os.fds[fd].obj
             old == os.objs[obj]
         IN  [os |-> [os EXCEPT !.objs[obj] =
                        [k \in 1..size |-> IF k <= Len(old) THEN old[k] ELSE 0]],
              ret |-> 0]

\* mmap(NULL, size, prot, MAP_SHARED, fd, 0): a new address, or MAP_FAILED
\* with errno set (always so for a length of 0).
mmap(os, proc, size, prot, fd, fail) ==
    IF fail \/ size = 0 \/ ~IsOpen(os, proc, fd)
    THEN [os |-> [os EXCEPT !.errno[proc] = 1], ret |-> MAP_FAILED]
    ELSE [os |-> [os EXCEPT
                    !.maps = Append(os.maps, [proc |-> proc,
                                              obj |-> os.fds[fd].obj,
                                              size |-> size,
                                              prot |-> prot,
                                              locked |-> FALSE,
                                              mapped |-> TRUE])],
          ret |-> Len(os.maps) + 1]

\* munmap(addr, size): fails for a bad address or a length of 0; unmapping
\* a range that is not mapped is no error.
munmap(os, proc, addr, size, fail) ==
    IF fail \/ size = 0 \/ addr \notin 1..Len(os.maps) THEN OsFail(os, proc)
    ELSE [os |-> Reap([os EXCEPT !.maps[addr] = Unmapped]), ret |-> 0]

\* shm_unlink(name)
shm_unlink(os, proc, name, fail) ==
    IF fail \/ name \notin ShmNames THEN OsFail(os, proc)
    ELSE IF os.names[name] = 0 THEN OsFail(os, proc)
    ELSE [os |-> Reap([os EXCEPT !.names[name] = 0]), ret |-> 0]

\* close(fd)
close(os, proc, fd, fail) ==
    IF fail \/ ~IsOpen(os, proc, fd) THEN OsFail(os, proc)
    ELSE [os |-> Reap([os EXCEPT !.fds[fd] = Closed]), ret |-> 0]

\* mlock(addr, size)
mlock(os, proc, addr, size, fail) ==
    IF fail \/ ~IsMapped(os, proc, addr) THEN OsFail(os, proc)
    ELSE [os |-> [os EXCEPT !.maps[addr].locked = TRUE], ret |-> 0]

\* munlock(addr, size)
munlock(os, proc, addr, size, fail) ==
    IF fail \/ ~IsMapped(os, proc, addr) THEN OsFail(os, proc)
    ELSE [os |-> [os EXCEPT !.maps[addr].locked = FALSE], ret |-> 0]

\* msync(addr, size, MS_SYNC | MS_INVALIDATE): the mapping is shared, so
\* the bytes are already the object's; the call fails on a locked range.
msync(os, proc, addr, size, fail) ==
    IF fail \/ ~IsMapped(os, proc, addr) THEN OsFail(os, proc)
    ELSE IF os.maps[addr].locked THEN OsFail(os, proc)
    ELSE [os |-> os, ret |-> 0]

\* The process is killed by a signal: the system closes its descriptors
\* and removes its mappings.
Crash(os, proc) ==
    Reap([os EXCEPT
            !.crashed[proc] = TRUE,
            !.fds = [f \in 1..Len(os.fds) |->
                       IF os.fds[f].proc = proc
                       THEN Closed ELSE os.fds[f]],
            !.maps = [a \in 1..Len(os.maps) |->
                       IF os.maps[a].proc = proc
                       THEN Unmapped ELSE os.maps[a]]])

\* SetBytes for a mapping that is private to the process: the object keeps
\* its bytes.
SetBytes_private(os, addr, m) == os

\* The bytes behind a live mapping: those of its object.
Bytes(os, addr) == os.objs[os.maps[addr].obj]

\* MAP_SHARED: the system after the bytes behind a mapping were overwritten.
SetBytes(os, addr, m) == [os EXCEPT !.objs[os.maps[addr].obj] = m]

\* Whether the process may read nbytes at addr (write them, with w): a copy
\* of no byte touches nothing; otherwise the range must be mapped with
\* that protection, or the process is killed.
CanAccess(os, proc, addr, nbytes, w) ==
    \/ nbytes = 0
    \/ /\ IsMapped(os, proc, addr)
       /\ os.maps[addr].prot = "rw" \/ (~w /\ os.maps[addr].prot = "r")

(* ---------------------------------------------------------------------- *)
(* RemoteMemory                                                            *)
(* ---------------------------------------------------------------------- *)

\* The RemoteMemory objects of the owner process.
Owners == {1}

\* RemoteMemory::RemoteMemory (gone: the object was destructed, and its
\* members are no more)
NewRemote ==
    [access |-> "none", addr |-> NULL, fd |-> -1, is_init |-> FALSE,
     manager |-> NewManager, mem_id |-> -1, name |-> <<>>, size |-> 0,
     gone |-> FALSE]

\* MemoryClient::MemoryClient (gone: the object was destructed)
NewClient == [last_id |-> 0, servers |-> <<>>, gone |-> FALSE]

\* The outcome of a call: the world after it, its result, the step at
\* which it returned, the bytes it copied out.
Out(w, ret, at) == [w |-> w, ret |-> ret, at |-> at, data |-> <<>>]

\* The world with owner o and the system replaced.
PutOwner(w, o, me, os) == [w EXCEPT !.owners[o] = me, !.os = os]

\* The bytes a manager over addr works on; when nothing is mapped there the
\* copy does not happen (CanAccess) and the bytes are not looked at.
Pool(os, proc, addr, size) ==
    IF IsMapped(os, proc, addr) THEN Bytes(os, addr) ELSE [k \in 1..size |-> 0]

\* RemoteInit without "AbortIf(_is_init, false)".
RemoteInit_again(me, access, name, size) ==
    IF ~(Len(name) > 0) THEN [me |-> me, ret |-> FALSE]
    ELSE [me |-> [me EXCEPT !.access = access, !.fd = -1,
                            !.name = Normalize(name), !.size = size],
          ret |-> TRUE]

\* RemoteMemory::init: the members assigned, or the owner as it was when
\* the call is refused.
RemoteInit(me, access, name, size) ==
    IF me.is_init THEN [me |-> me, ret |-> FALSE]
    ELSE IF ~(Len(name) > 0) THEN [me |-> me, ret |-> FALSE]
    ELSE [me |-> [me EXCEPT !.access = access, !.fd = -1,
                            !.name = Normalize(name), !.size = size],
          ret |-> TRUE]

\* RemoteMemory::create, from the mmap call on.
CreateMap(w, o, me, os, fail) ==
    LET mp == mmap(os, "srv", me.size, "rw", me.fd, fail = "mmap")
        m3 == [me EXCEPT !.addr = mp.ret]
    IN  IF mp.os.errno["srv"] # 0 THEN Out(PutOwner(w, o, m3, mp.os), FALSE, "mmap")
        ELSE
        LET mi == init(m3.manager, m3.addr, m3.size)
            m4 == [m3 EXCEPT !.manager = mi.pool]
        IN  IF ~mi.ret THEN Out(PutOwner(w, o, m4, mp.os), FALSE, "manager")
            ELSE
            LET al == allocate(m4.manager, Bytes(mp.os, m4.addr), m4.size, <<>>)
                m5 == [m4 EXCEPT !.manager = al.pool, !.mem_id = al.ret]
            IN  IF al.ret = -1 THEN Out(PutOwner(w, o, m5, mp.os), FALSE, "allocate")
                ELSE Out(PutOwner(w, o, [m5 EXCEPT !.is_init = TRUE], mp.os),
                         TRUE, "done")

\* RemoteMemory::create
create(w, o, name, access, size, fail) ==
    LET ini == RemoteInit(w.owners[o], access, name, size) IN
    IF ~ini.ret THEN Out(w, FALSE, "init")
    ELSE
    LET op == shm_create(w.os, "srv", ini.me.name, fail = "shm_open") IN
    IF op.ret = -1 THEN Out(PutOwner(w, o, ini.me, op.os), FALSE, "shm_open")
    ELSE
    LET m2 == [ini.me EXCEPT !.fd = op.ret]
        tr == ftruncate(op.os, "srv", m2.fd, m2.size, fail = "ftruncate")
    IN  IF tr.ret = -1 THEN Out(PutOwner(w, o, m2, tr.os), FALSE, "ftruncate")
        ELSE CreateMap(w, o, m2, tr.os, fail)

\* RemoteMemory::destroy
RemoteDestroy(w, o, fail) ==
    LET me == w.owners[o] IN
    IF ~me.is_init THEN Out(w, FALSE, "init")
    ELSE
    LET um == munmap(w.os, "srv", me.addr, me.size, fail = "munmap") IN
    IF um.ret = -1 THEN Out(PutOwner(w, o, me, um.os), FALSE, "munmap")
    ELSE
    LET ul == shm_unlink(um.os, "srv", me.name, fail = "shm_unlink") IN
    IF ul.ret = -1 THEN Out(PutOwner(w, o, me, ul.os), FALSE, "shm_unlink")
    ELSE
    LET cl == close(ul.os, "srv", me.fd, fail = "close") IN
    IF cl.ret = -1 THEN Out(PutOwner(w, o, me, cl.os), FALSE, "close")
    ELSE Out(PutOwner(w, o, [me EXCEPT !.is_init = FALSE], cl.os), TRUE, "done")

\* RemoteMemory::read
RemoteRead(w, o, size) ==
    LET me == w.owners[o]
        r  == read(me.manager, Pool(w.os, "srv", me.addr, me.manager.size),
                   me.mem_id, size)
    IN  IF ~me.is_init THEN Out(w, FALSE, "init")
        ELSE IF ~r.ret THEN Out(w, FALSE, "copy")
        ELSE IF ~CanAccess(w.os, "srv", me.addr, size, FALSE)
        THEN Out([w EXCEPT !.os = Crash(w.os, "srv")], FALSE, "crash")
        ELSE [w |-> w, ret |-> TRUE, at |-> "done", data |-> r.data]

\* RemoteMemory::write
RemoteWrite(w, o, buf, size, fail) ==
    LET me == w.owners[o] IN
    IF ~me.is_init THEN Out(w, FALSE, "init")
    ELSE
    LET lk == mlock(w.os, "srv", me.addr, me.size, fail = "mlock") IN
    IF lk.ret = -1 THEN Out([w EXCEPT !.os = lk.os], FALSE, "mlock")
    ELSE
    LET wr == write(me.manager, Bytes(lk.os, me.addr), me.mem_id, buf, size) IN
    IF ~wr.ret THEN Out([w EXCEPT !.os = lk.os], FALSE, "copy")
    ELSE IF ~CanAccess(lk.os, "srv", me.addr, size, TRUE)
    THEN Out([w EXCEPT !.os = Crash(lk.os, "srv")], FALSE, "crash")
    ELSE
    LET cp == SetBytes(lk.os, me.addr, wr.mem)
        ul == munlock(cp, "srv", me.addr, me.size, fail = "munlock")
    IN  IF ul.ret = -1 THEN Out([w EXCEPT !.os = ul.os], FALSE, "munlock")
        ELSE
        LET ms == msync(ul.os, "srv", me.addr, me.size, fail = "msync") IN
        IF ms.ret = -1 THEN Out([w EXCEPT !.os = ms.os], FALSE, "msync")
        ELSE Out([w EXCEPT !.os = ms.os], TRUE, "done")

\* RemoteMemory::~RemoteMemory
RemoteDtor(w, o, fail) ==
    LET d == IF w.owners[o].is_init THEN RemoteDestroy(w, o, fail).w ELSE w
    IN  Out([d EXCEPT !.owners[o] = [NewRemote EXCEPT !.gone = TRUE]],
            TRUE, "done")

(* ---------------------------------------------------------------------- *)
(* MemoryClient                                                            *)
(* ---------------------------------------------------------------------- *)

\* MemoryClient::Server::Server
Server(access, addr, fd, id, name, size) ==
    [access |-> access, addr |-> addr, fd |-> fd, id |-> id,
     manager |-> NewManager, mem_id |-> -1, name |-> name, size |-> size]

\* ClientLookup that falls back on the first record when none has the id.
ClientLookup_first(c, id) ==
    IF \E i \in 1..Len(c.servers) : c.servers[i].id = id
    THEN CHOOSE i \in 1..Len(c.servers) : c.servers[i].id = id
    ELSE IF c.servers = <<>> THEN 0 ELSE 1

\* MemoryClient::lookup: position of the first record with this id, 0 when
\* there is none.
ClientLookup(c, id) ==
    IF \E i \in 1..Len(c.servers) : c.servers[i].id = id
    THEN CHOOSE i \in 1..Len(c.servers) :
            /\ c.servers[i].id = id
            /\ \A j \in 1..(i - 1) : c.servers[j].id # id
    ELSE 0

\* Attached that finds no record.
Attached_never(c, real_name) == FALSE

\* Whether the client holds a record for this name (the loop of attach).
Attached(c, real_name) ==
    \E i \in 1..Len(c.servers) : c.servers[i].name = real_name

\* Writable without the comparison.
Writable_always(s) == TRUE

\* Whether write is allowed on a record (the access check of write).
Writable(s) == s.access = "read_write"

\* The protection attach asks of mmap for an access.
Prot(access) ==
    CASE access = "read_only"  -> "r"
      [] access = "read_write" -> "rw"
      [] OTHER                 -> "none"

\* MemoryClient::attach, from the mmap call on.  out_id is the caller's
\* variable as it was; it is assigned only on success.
AttachMap(w, access, size, fd, real_name, os, fail) ==
    LET mp == mmap(os, "cli", size, Prot(access), fd, fail = "mmap") IN
    IF mp.os.errno["cli"] # 0 THEN Out([w EXCEPT !.os = mp.os], FALSE, "mmap")
    ELSE
    LET s0 == Server(access, mp.ret, fd, w.client.last_id, real_name, size)
        mi == init(s0.manager, s0.addr, s0.size)
        s1 == [s0 EXCEPT !.manager = mi.pool]
    IN  IF ~mi.ret THEN Out([w EXCEPT !.os = mp.os], FALSE, "manager")
        ELSE
        LET al == allocate(s1.manager, Bytes(mp.os, s1.addr), size, <<>>)
            s2 == [s1 EXCEPT !.manager = al.pool, !.mem_id = al.ret]
        IN  IF al.ret < 0 THEN Out([w EXCEPT !.os = mp.os], FALSE, "allocate")
            ELSE Out([w EXCEPT !.os = mp.os,
                               !.client.servers = Append(w.client.servers, s2),
                               !.client.last_id = w.client.last_id + 1],
                     TRUE, "done")

\* MemoryClient::attach; on success the handle is the client's _last_id
\* before the call.
attach(w, name, access, size, fail) ==
    IF Len(name) = 0 THEN Out(w, FALSE, "name")
    ELSE
    LET real_name == Normalize(name) IN
    IF Attached(w.client, real_name) THEN Out(w, FALSE, "duplicate")
    ELSE
    LET op == shm_open(w.os, "cli", real_name, fail = "shm_open") IN
    IF op.ret = -1 THEN Out([w EXCEPT !.os = op.os], FALSE, "shm_open")
    ELSE AttachMap(w, access, size, op.ret, real_name, op.os, fail)

\* MemoryClient::destroy
ClientDestroy(w, id, fail) ==
    LET i == ClientLookup(w.client, id) IN
    IF i = 0 THEN Out(w, FALSE, "lookup")
    ELSE
    LET s  == w.client.servers[i]
        um == munmap(w.os, "cli", s.addr, s.size, fail = "munmap")
    IN  IF um.ret = -1 THEN Out([w EXCEPT !.os = um.os], FALSE, "munmap")
        ELSE
        LET cl == close(um.os, "cli", s.fd, fail = "close") IN
        IF cl.ret = -1 THEN Out([w EXCEPT !.os = cl.os], FALSE, "close")
        ELSE Out([w EXCEPT !.os = cl.os,
                           !.client.servers = Erase(w.client.servers, i)],
                 TRUE, "done")

\* MemoryClient::read
ClientRead(w, id, size) ==
    LET i == ClientLookup(w.client, id) IN
    IF i = 0 THEN Out(w, FALSE, "lookup")
    ELSE
    LET s == w.client.servers[i]
        r == read(s.manager, Pool(w.os, "cli", s.addr, s.manager.size),
                  s.mem_id, size)
    IN  IF ~r.ret THEN Out(w, FALSE, "copy")
        ELSE IF ~CanAccess(w.os, "cli", s.addr, size, FALSE)
        THEN Out([w EXCEPT !.os = Crash(w.os, "cli")], FALSE, "crash")
        ELSE [w |-> w, ret |-> TRUE, at |-> "done", data |-> r.data]

\* MemoryClient::write
ClientWrite(w, id, buf, size, fail) ==
    LET i == ClientLookup(w.client, id) IN
    IF i = 0 THEN Out(w, FALSE, "lookup")
    ELSE
    LET s == w.client.servers[i] IN
    IF ~Writable(s) THEN Out(w, FALSE, "access")
    ELSE
    LET lk == mlock(w.os, "cli", s.addr, s.size, fail = "mlock") IN
    IF lk.ret = -1 THEN Out([w EXCEPT !.os = lk.os], FALSE, "mlock")
    ELSE
    LET wr == write(s.manager, Bytes(lk.os, s.addr), s.mem_id, buf, size) IN
    IF ~wr.ret THEN Out([w EXCEPT !.os = lk.os], FALSE, "copy")
    ELSE IF ~CanAccess(lk.os, "cli", s.addr, size, TRUE)
    THEN Out([w EXCEPT !.os = Crash(lk.os, "cli")], FALSE, "crash")
    ELSE
    LET cp == SetBytes(lk.os, s.addr, wr.mem)
        ul == munlock(cp, "cli", s.addr, s.size, fail = "munlock")
    IN  IF ul.ret = -1 THEN Out([w EXCEPT !.os = ul.os], FALSE, "munlock")
        ELSE
        LET ms == msync(ul.os, "cli", s.addr, s.size, fail = "msync") IN
        IF ms.ret = -1 THEN Out([w EXCEPT !.os = ms.os], FALSE, "msync")
        ELSE Out([w EXCEPT !.os = ms.os], TRUE, "done")

\* The handles the loop of MemoryClient::~MemoryClient passes to destroy,
\* pass by pass.
RECURSIVE DtorIds(_, _, _)
DtorIds(w, i, fails) ==
    IF i = 0 THEN <<>>
    ELSE <<w.client.servers[1].id>> \o
         DtorIds(ClientDestroy(w, w.client.servers[1].id, fails[i]).w,
                 i - 1, fails)

\* DtorLoop that stops after its first pass.
DtorLoop_once(w, i, fails) ==
    IF i = 0 THEN w
    ELSE ClientDestroy(w, w.client.servers[1].id, fails[i]).w

\* The loop of MemoryClient::~MemoryClient with i passes to go, each a
\* destroy of the first record.
RECURSIVE DtorLoop(_, _, _)
DtorLoop(w, i, fails) ==
    IF i = 0 THEN w
    ELSE DtorLoop(ClientDestroy(w, w.client.servers[1].id, fails[i]).w,
                  i - 1, fails)

\* MemoryClient::~MemoryClient
ClientDtor(w, fails) ==
    Out([DtorLoop(w, Len(w.client.servers), fails) EXCEPT
            !.client = [NewClient EXCEPT !.gone = TRUE]],
        TRUE, "done")

(* ---------------------------------------------------------------------- *)
(* The allocator driven by its caller                                      *)
(* ---------------------------------------------------------------------- *)

\* The record of a call: what was called, whether it succeeded, and the
\* statement at which it returned.
Call(op, ok, at) == [op |-> op, ok |-> ok, at |-> at]

\* The statement at which allocate(size) returns.
AllocateAt(p, size) ==
    IF ~p.is_init THEN "init"
    ELSE IF size > p.size THEN "too_large"
    ELSE IF size = 0 THEN "zero"
    ELSE IF p.vacant = <<>> THEN "full"
    ELSE IF FirstFit(p, size) # 0 THEN "fit"
    ELSE IF SumSizes(p.vacant) >= size THEN "defrag_fit"
    ELSE "defrag_no_fit"

\* The statement at which read or write of nbytes of block id returns.
AccessAt(p, id, nbytes) ==
    IF ~p.is_init THEN "init"
    ELSE IF lookup(p, id) = 0 THEN "lookup"
    ELSE IF p.in_use[lookup(p, id)].size < nbytes THEN "size"
    ELSE "done"

\* How the calls since init began: "fresh" (none yet), "alloc" (one
\* successful allocate), "freed" (then a successful free of its block),
\* "again" (then an allocate of the whole capacity cap), "other" (anything
\* else).  id and size are the first allocation's.
Track(ph, op, ok, id, size, cap) ==
    IF ph.at = "fresh" /\ op = "allocate" /\ ok
    THEN [at |-> "alloc", id |-> id, size |-> size]
    ELSE IF ph.at = "alloc" /\ op = "free" /\ ok /\ id = ph.id
    THEN [ph EXCEPT !.at = "freed"]
    ELSE IF ph.at = "freed" /\ op = "allocate" /\ size = cap
    THEN [ph EXCEPT !.at = "again", !.id = id]
    ELSE [at |-> "other", id |-> -1, size |-> 0]

\* The ids a caller may pass: the sentinel, every id issued so far, and
\* the next one, which was never issued.
IdArgs(p) == -1..p.last_index

\* The sizes and byte counts a caller may pass: up to one more than the
\* capacity.
SizeArgs(p) == 0..(p.size + 1)

\* The copy orders of one defrag pass, one per block in use.  They are
\* enumerated only for a call that runs defrag.
ModeArgs(p, size) ==
    IF NeedsDefrag(p, size) THEN [1..Len(p.in_use) -> CopyModes]
    ELSE {[i \in 1..Len(p.in_use) |-> "fwd"]}

\* The caller's source buffers of n bytes.  A write that fails reads no
\* byte of its buffer, so one buffer stands for all of them there.
BufArgs(p, id, n) ==
    IF p.is_init /\ lookup(p, id) # 0 /\ p.in_use[lookup(p, id)].size >= n
    THEN [1..n -> Byte]
    ELSE {[k \in 1..n |-> 0]}

PoolInit ==
    /\ pool = NewManager
    /\ mem = <<>>
    /\ last = Call("new", TRUE, "done")
    /\ phase = [at |-> "other", id |-> -1, size |-> 0]

\* init(addr, size): the caller's buffer holds arbitrary bytes.
DoInit ==
    \E addr \in Addrs, size \in 0..MaxCap :
        LET r == init(pool, addr, size) IN
        /\ pool' = r.pool
        /\ IF r.ret
           THEN /\ mem' \in [1..size -> Byte]
                /\ phase' = [at |-> "fresh", id |-> -1, size |-> 0]
           ELSE UNCHANGED <<mem, phase>>
        /\ last' = Call("init", r.ret, IF r.ret THEN "done" ELSE "refused")

DoAllocate ==
    \E size \in SizeArgs(pool) :
    \E modes \in ModeArgs(pool, size) :
        LET r == allocate(pool, mem, size, modes) IN
        /\ (r.ret = -1 \/ pool.last_index < MaxAllocs)
        /\ pool' = r.pool
        /\ mem' = r.mem
        /\ last' = Call("allocate", r.ret # -1, AllocateAt(pool, size))
        /\ phase' = Track(phase, "allocate", r.ret # -1, r.ret, size, pool.size)

DoFree ==
    \E id \in IdArgs(pool) :
        LET r == free(pool, id) IN
        /\ pool' = r.pool
        /\ mem' = mem
        /\ last' = Call("free", r.ret, IF r.ret THEN "done" ELSE "lookup")
        /\ phase' = Track(phase, "free", r.ret, id, 0, pool.size)

DoRead ==
    \E id \in IdArgs(pool), n \in SizeArgs(pool) :
        LET r == read(pool, mem, id, n) IN
        /\ UNCHANGED <<pool, mem>>
        /\ last' = Call("read", r.ret, AccessAt(pool, id, n))
        /\ phase' = Track(phase, "read", r.ret, id, n, pool.size)

DoWrite ==
    \E id \in IdArgs(pool), n \in SizeArgs(pool) :
    \E buf \in BufArgs(pool, id, n) :
        LET r == write(pool, mem, id, buf, n) IN
        /\ pool' = pool
        /\ mem' = r.mem
        /\ last' = Call("write", r.ret, AccessAt(pool, id, n))
        /\ phase' = Track(phase, "write", r.ret, id, n, pool.size)

PoolNext == DoInit \/ DoAllocate \/ DoFree \/ DoRead \/ DoWrite

(* ---------------------------------------------------------------------- *)
(* The owner process and the client process                                *)
(* ---------------------------------------------------------------------- *)

\* The world the handlers work on.
World == [owners |-> owners, client |-> client, os |-> sys]

\* The step of a handler at which the system refuses it, "none" for none.
\* Pinning, unpinning and flushing fail when the system says so (a lock
\* limit, an i/o error).  The calls of create, attach and destroy are
\* refused for the arguments the system rejects: a name that is taken or
\* not published, a length of 0, a descriptor that is not open.
CreateFails == {"none"}
AttachFails == {"none"}
WriteFails == {"none", "mlock", "munlock", "msync"}
OwnerDestroyFails == {"none"}
ClientDestroyFails == {"none"}

\* The access values callers pass; "none" is the enum's value for no
\* access and is passed by no caller.
AccessArgs == {"read_only", "read_write"}

\* The sizes a client may attach with: the caller passes the size the
\* owner gave the region, or less; for a name that is not published the
\* size is not looked at.
AttachSizes(name) ==
    IF Len(name) > 0 /\ sys.names[Normalize(name)] # 0
    THEN 0..Len(sys.objs[sys.names[Normalize(name)]])
    ELSE 0..MaxSize

\* The handles a caller may pass: every handle issued so far, the next
\* one, which was never issued, and -1.
HandleArgs == -1..client.last_id

\* The source buffers of a write of n bytes.  No region holds more than
\* MaxSize bytes, so a longer write copies nothing and one buffer stands
\* for all of them.
Bufs(n) == IF n <= MaxSize THEN [1..n -> Byte] ELSE {[k \in 1..n |-> 0]}

\* A call that is refused before it looks at its other arguments is tried
\* with one choice of them: create on an owner that is created, write by
\* an owner that is not, write with a handle that has no record or no
\* write access.
CreateSizes(o) == IF owners[o].is_init THEN {0} ELSE 0..MaxSize
CreateAccess(o) == IF owners[o].is_init THEN {"read_only"} ELSE AccessArgs
OwnerWriteSizes(o) == IF owners[o].is_init THEN 0..(MaxSize + 1) ELSE {0}
OwnerWriteFails(o) == IF owners[o].is_init THEN WriteFails ELSE {"none"}
ClientWrites(id) ==
    /\ ClientLookup(client, id) # 0
    /\ Writable(client.servers[ClientLookup(client, id)])
ClientWriteSizes(id) == IF ClientWrites(id) THEN 0..(MaxSize + 1) ELSE {0}
ClientWriteFails(id) == IF ClientWrites(id) THEN WriteFails ELSE {"none"}

\* The descriptors a run may open.  attach may open one more when it adds
\* a second record to the client and no region was given more than one
\* byte.
OpenLimit ==
    IF /\ client.servers # <<>>
       /\ \A k \in 1..Len(sys.objs) : Len(sys.objs[k]) <= 1
    THEN MaxOpens + 1 ELSE MaxOpens

\* Whether the process still runs.
Runs(proc) == ~sys.crashed[proc]

ShmInit ==
    /\ owners = [o \in Owners |-> NewRemote]
    /\ client = NewClient
    /\ sys = NewOs

\* The world after a handler.
Becomes(r) ==
    /\ owners' = r.w.owners
    /\ client' = r.w.client
    /\ sys' = r.w.os

DoCreate(o) ==
    \E name \in RawNames, access \in CreateAccess(o), size \in CreateSizes(o),
       fail \in CreateFails :
        /\ Runs("srv") /\ ~owners[o].gone
        /\ Len(sys.fds) < MaxOpens
        /\ Becomes(create(World, o, name, access, size, fail))

DoRemoteDestroy(o) ==
    \E fail \in OwnerDestroyFails :
        /\ Runs("srv") /\ ~owners[o].gone
        /\ Becomes(RemoteDestroy(World, o, fail))

DoRemoteRead(o) ==
    \E size \in 0..(MaxSize + 1) :
        /\ Runs("srv") /\ ~owners[o].gone
        /\ Becomes(RemoteRead(World, o, size))

DoRemoteWrite(o) ==
    \E size \in OwnerWriteSizes(o), fail \in OwnerWriteFails(o) :
    \E buf \in Bufs(size) :
        /\ Runs("srv") /\ ~owners[o].gone
        /\ Becomes(RemoteWrite(World, o, buf, size, fail))

DoRemoteDtor(o) ==
    \E fail \in OwnerDestroyFails :
        /\ Runs("srv") /\ ~owners[o].gone
        /\ Becomes(RemoteDtor(World, o, fail))

DoAttach ==
    \E name \in RawNames, access \in AccessArgs, fail \in AttachFails :
    \E size \in AttachSizes(name) :
        /\ Runs("cli") /\ ~client.gone
        /\ Len(sys.fds) < OpenLimit
        /\ Becomes(attach(World, name, access, size, fail))

DoClientDestroy ==
    \E id \in HandleArgs, fail \in ClientDestroyFails :
        /\ Runs("cli") /\ ~client.gone
        /\ Becomes(ClientDestroy(World, id, fail))

DoClientRead ==
    \E id \in HandleArgs, size \in 0..(MaxSize + 1) :
        /\ Runs("cli") /\ ~client.gone
        /\ Becomes(ClientRead(World, id, size))

DoClientWrite ==
    \E id \in HandleArgs :
    \E size \in ClientWriteSizes(id), fail \in ClientWriteFails(id) :
    \E buf \in Bufs(size) :
        /\ Runs("cli") /\ ~client.gone
        /\ Becomes(ClientWrite(World, id, buf, size, fail))

DoClientDtor ==
    \E fails \in [1..Len(client.servers) -> ClientDestroyFails] :
        /\ Runs("cli") /\ ~client.gone
        /\ Becomes(ClientDtor(World, fails))

\* The driver's "errno = 0".
DoClearErrno ==
    \E proc \in Procs :
        /\ Runs(proc)
        /\ sys.errno[proc] # 0
        /\ sys' = [sys EXCEPT !.errno[proc] = 0]
        /\ UNCHANGED <<owners, client>>

ShmNext ==
    \/ \E o \in Owners : DoCreate(o)
    \/ \E o \in Owners : DoRemoteDestroy(o)
    \/ \E o \in Owners : DoRemoteRead(o)
    \/ \E o \in Owners : DoRemoteWrite(o)
    \/ \E o \in Owners : DoRemoteDtor(o)
    \/ DoAttach
    \/ DoClientDestroy
    \/ DoClientRead
    \/ DoClientWrite
    \/ DoClientDtor
    \/ DoClearErrno

(* ---------------------------------------------------------------------- *)
(* Specifications                                                          *)
(* ---------------------------------------------------------------------- *)

vars == <<pool, mem, last, phase, owners, client, sys>>

Init == PoolInit /\ ShmInit

\* A run drives either the allocator alone or the owner and the client
\* (the two halves of SharedMemory_ut.cpp's main).
Next ==
    \/ ShmInit /\ PoolNext /\ UNCHANGED shmVars
    \/ last.op = "new" /\ ShmNext /\ UNCHANGED poolVars

Spec == Init /\ [][Next]_vars

\* The allocator alone.
PoolSpec == Init /\ [][PoolNext /\ UNCHANGED shmVars]_vars

\* The owner process and the client process alone.
ShmSpec == Init /\ [][ShmNext /\ UNCHANGED poolVars]_vars

(* ---------------------------------------------------------------------- *)
(* Properties of the allocator                                             *)
(* ---------------------------------------------------------------------- *)

\* The blocks of a pool, in use and vacant.
AllBlocks(p) == p.in_use \o p.vacant

\* Whether block b holds the byte at offset k.
Holds(b, k) == b.offset <= k /\ k < b.offset + b.size

\* The ids of the blocks in use.
UsedIds(p) == {p.in_use[i].id : i \in 1..Len(p.in_use)}

\* Blocks 1..i of a list start at 0 and follow one another without a gap.
Contiguous(blocks) ==
    \A i \in 1..Len(blocks) :
        blocks[i].offset = SumSizes(SubSeq(blocks, 1, i - 1))

\* C1: once init has succeeded, whatever allocate and free calls followed
\* (failed ones and defragmenting ones included), every byte of
\* [0, capacity) lies in exactly one block of in_use and vacant, no block
\* reaches past the capacity, and the sizes add up to the capacity.
C1_Partition ==
    pool.is_init =>
        /\ \A k \in 0..(pool.size - 1) :
              Cardinality({i \in 1..Len(AllBlocks(pool)) :
                              Holds(AllBlocks(pool)[i], k)}) = 1
        /\ \A i \in 1..Len(AllBlocks(pool)) :
              AllBlocks(pool)[i].offset + AllBlocks(pool)[i].size <= pool.size
        /\ SumSizes(pool.in_use) + SumSizes(pool.vacant) = pool.size

\* C1's case: an allocate has just defragmented a pool that holds two blocks
\* or more and a vacancy.
C1_Witness ==
    /\ last.op = "allocate"
    /\ last.at \in {"defrag_fit", "defrag_no_fit"}
    /\ Len(pool.in_use) >= 2
    /\ pool.vacant # <<>>

\* C2: on an initialized pool allocate(size) returns an id exactly when
\* 0 < size <= capacity and the vacant bytes, contiguous or not, add up to
\* at least size; allocate(0), allocate(capacity + 1) and allocate on a pool
\* with no vacant byte return -1 and leave in_use and vacant as they were.
C2_AllocateIff ==
    pool.is_init =>
        \A size \in 0..(pool.size + 2) :
        \A modes \in ModeArgs(pool, size) :
            LET r == allocate(pool, mem, size, modes) IN
            /\ (r.ret # -1) <=>
                  (0 < size /\ size <= pool.size /\ SumSizes(pool.vacant) >= size)
            /\ (size = 0 \/ size = pool.size + 1 \/ SumSizes(pool.vacant) = 0) =>
                  /\ r.ret = -1
                  /\ r.pool.in_use = pool.in_use
                  /\ r.pool.vacant = pool.vacant

\* C2's case: an allocate has just failed on a pool whose bytes are all in
\* use.
C2_Witness ==
    /\ last.op = "allocate" /\ ~last.ok /\ last.at = "full"
    /\ SumSizes(pool.in_use) = pool.size
    /\ Len(pool.in_use) >= 2

\* C3: for a block in use and n up to its size, write(id, bytes, n) returns
\* true and a read(id, buffer, n) right after it returns true and the n
\* bytes written.
C3_WriteRead ==
    \A i \in 1..Len(pool.in_use) :
    \A n \in 0..pool.in_use[i].size :
    \A buf \in [1..n -> Byte] :
        LET id == pool.in_use[i].id
            w  == write(pool, mem, id, buf, n)
        IN  /\ w.ret
            /\ read(pool, w.mem, id, n) = [ret |-> TRUE, data |-> buf]

\* C3's case: a write has just succeeded, and a block of two bytes that is
\* not the first in the buffer reads back as two different bytes.
C3_Witness ==
    /\ last.op = "write" /\ last.ok
    /\ \E i \in 1..Len(pool.in_use) :
          /\ pool.in_use[i].size = 2
          /\ pool.in_use[i].offset > 0
          /\ read(pool, mem, pool.in_use[i].id, 2).data = <<1, 0>>

\* C4: read and write with more bytes than the addressed block holds return
\* false; write leaves every byte of the buffer as it was and read copies
\* nothing out.  Both calls are const members: they have no pool to give
\* back, and in_use and vacant stay as they were.
C4_TooLong ==
    \A i \in 1..Len(pool.in_use) :
    \A n \in (pool.in_use[i].size + 1)..(pool.size + 1) :
    \A buf \in [1..n -> Byte] :
        LET id == pool.in_use[i].id IN
        /\ write(pool, mem, id, buf, n) = [ret |-> FALSE, mem |-> mem]
        /\ read(pool, mem, id, n) = [ret |-> FALSE, data |-> <<>>]

\* C4's case: a write of more bytes than the block holds has just failed,
\* next to another block in use.
C4_Witness ==
    /\ last.op = "write" /\ ~last.ok /\ last.at = "size"
    /\ Len(pool.in_use) >= 2

\* C5: on a fresh pool of any capacity C, after allocate(S) with 0 < S <= C
\* and free of the id it returned, the whole capacity is vacant and
\* allocate(C) succeeds with a block of size C at offset 0.
C5_AllocFree ==
    /\ phase.at = "freed" =>
          /\ pool.in_use = <<>>
          /\ SumSizes(pool.vacant) = pool.size
          /\ \A modes \in ModeArgs(pool, pool.size) :
                LET r == allocate(pool, mem, pool.size, modes) IN
                /\ r.ret # -1
                /\ r.pool.in_use = <<Block(r.ret, 0, pool.size)>>
    /\ phase.at = "again" =>
          /\ phase.id # -1
          /\ pool.in_use = <<Block(phase.id, 0, pool.size)>>

\* C5's case: allocate(S) with S < C, free, allocate(C) have just run on a
\* fresh pool.
C5_Witness ==
    /\ phase.at = "again"
    /\ 0 < phase.size /\ phase.size < pool.size
    /\ pool.size = MaxCap

\* The properties defrag establishes on a pool.
Defragmented(p) ==
    /\ Len(p.vacant) = 1
    /\ p.vacant[1].size = p.size - SumSizes(p.in_use)
    /\ p.vacant[1].offset = SumSizes(p.in_use)
    /\ Contiguous(p.in_use)

\* C6: whatever allocate and free calls came before, a defrag pass leaves
\* exactly one vacancy, of capacity minus the bytes in use, starting where
\* the blocks in use end, and the blocks in use fill [0, sum) one after the
\* other.
C6_Defrag ==
    pool.is_init =>
        /\ \A modes \in [1..Len(pool.in_use) -> CopyModes] :
              /\ Defragmented(defrag(pool, mem, modes).pool)
              /\ SumSizes(defrag(pool, mem, modes).pool.in_use)
                    = SumSizes(pool.in_use)
        /\ last.at = "defrag_no_fit" => Defragmented(pool)

\* C6's case: an allocate has just run defrag over two blocks and failed.
C6_Witness ==
    /\ last.op = "allocate" /\ last.at = "defrag_no_fit"
    /\ Len(pool.in_use) >= 2
    /\ pool.in_use[2].offset > 0

(* ---------------------------------------------------------------------- *)
(* Properties of the shared regions                                        *)
(* ---------------------------------------------------------------------- *)

\* The world after the step.
WorldNext == [owners |-> owners', client |-> client', os |-> sys']

\* A name without its leading separator.
Strip(name) == IF name # <<>> /\ Head(name) = "/" THEN Tail(name) ELSE name

\* The steps a failing system call may be told to fail at, per handler.
AnyWriteFail == {"none", "mlock", "munlock", "msync"}
AnyAttachFail == {"none", "shm_open", "mmap"}
AnyDestroyFail == {"none", "munmap", "close"}

\* Owner o created a region and record i of the client is attached to its
\* name with its size.
Paired(o, i) ==
    /\ owners[o].is_init
    /\ client.servers[i].name = owners[o].name
    /\ client.servers[i].size = owners[o].size

\* The step is a write call of the owner or of the client, whatever it
\* returned.
WriteStep ==
    \E n \in 0..(MaxSize + 1) : \E buf \in [1..n -> Byte] :
    \E fail \in AnyWriteFail :
        \/ \E o \in Owners : WorldNext = RemoteWrite(World, o, buf, n, fail).w
        \/ \E id \in HandleArgs :
              WorldNext = ClientWrite(World, id, buf, n, fail).w

\* A write by one end that returned true is read back by the other end.
ReadsBack ==
    \A o \in Owners : \A i \in 1..Len(client.servers) :
        Paired(o, i) =>
            \A n \in 0..owners[o].size : \A buf \in [1..n -> Byte] :
            \A fail \in AnyWriteFail :
                LET id == client.servers[i].id
                    cw == ClientWrite(World, id, buf, n, fail)
                    ow == RemoteWrite(World, o, buf, n, fail)
                IN  /\ cw.ret =>
                          /\ RemoteRead(cw.w, o, n).ret
                          /\ RemoteRead(cw.w, o, n).data = buf
                    /\ ow.ret =>
                          /\ ClientRead(ow.w, id, n).ret
                          /\ ClientRead(ow.w, id, n).data = buf

\* C7: for an owner that created a region of size N and a client attached
\* to its name with size N, a write of n <= N bytes by one of them that
\* returned true is read back, byte for byte, by a read of n bytes of the
\* other; and while both stay as they are, the bytes of the region change
\* in no step but a write, so a later read finds them too.
C7_Visible ==
    /\ []ReadsBack
    /\ [][\A o \in Owners : \A i \in 1..Len(client.servers) :
            (/\ Paired(o, i)
             /\ owners' = owners /\ client' = client
             /\ Bytes(sys', owners[o].addr) # Bytes(sys, owners[o].addr))
                => WriteStep]_vars

\* C7's case: the region holds bytes one end wrote, the other end reads
\* them, and a write by the client of other bytes is read by the owner.
C7_Witness ==
    \E o \in Owners : \E i \in 1..Len(client.servers) :
        /\ Paired(o, i)
        /\ owners[o].size = 2
        /\ Writable(client.servers[i])
        /\ RemoteRead(World, o, 2).data = <<1, 0>>
        /\ ClientRead(World, client.servers[i].id, 2).data = <<1, 0>>
        /\ LET cw == ClientWrite(World, client.servers[i].id, <<0, 1>>, 2, "none")
           IN  cw.ret /\ RemoteRead(cw.w, o, 2).data = <<0, 1>>

\* C8: write on a handle attached read_only returns false for every buffer
\* and size, before it pins, copies or flushes: the system (the bytes of
\* the region with it) and the client's records are as they were.
C8_ReadOnly ==
    \A i \in 1..Len(client.servers) :
        client.servers[i].access = "read_only" =>
            \A n \in 0..(MaxSize + 1) : \A buf \in [1..n -> Byte] :
            \A fail \in AnyWriteFail :
                ClientWrite(World, client.servers[i].id, buf, n, fail)
                    = Out(World, FALSE, "access")

\* C8's case: the client holds a read_only record of a region whose owner
\* wrote to it, the client runs, and its write returns at the access check.
C8_Witness ==
    \E i \in 1..Len(client.servers) :
        /\ client.servers[i].access = "read_only"
        /\ Runs("cli") /\ ~client.gone
        /\ Bytes(sys, client.servers[i].addr) = <<0, 1>>
        /\ ClientWrite(World, client.servers[i].id, <<1, 1>>, 2, "none").at
              = "access"

\* C9: while the client holds a record of a region, attach to the same name,
\* given with or without the leading '/', with any access and any size,
\* returns false at the check for a record of that name: no descriptor, no
\* mapping, no handle, and the records as they were.
C9_Duplicate ==
    \A i \in 1..Len(client.servers) :
    \A name \in RawNames :
        (name # <<>> /\ Strip(name) = Strip(client.servers[i].name)) =>
            \A access \in Access : \A size \in 0..(MaxSize + 1) :
            \A fail \in AnyAttachFail :
                attach(World, name, access, size, fail)
                    = Out(World, FALSE, "duplicate")

\* C9's case: the client holds a read_only record of /a, of one byte of a
\* region of two, may open one more descriptor, and attach to a with
\* another access and size is refused as a duplicate.
C9_Witness ==
    /\ Len(client.servers) = 1
    /\ client.servers[1].name = <<"/", "a">>
    /\ client.servers[1].access = "read_only"
    /\ client.servers[1].size = 1
    /\ Len(Bytes(sys, client.servers[1].addr)) = 2
    /\ Runs("cli") /\ ~client.gone
    /\ Len(sys.fds) < MaxOpens
    /\ attach(World, <<"a">>, "read_write", 2, "none").at = "duplicate"

\* C10: MemoryClient::destroy with a handle that has no record, and
\* MemoryManager::free with an id that is not in in_use (never issued,
\* freed before, or -1), return false and leave the records, the system and
\* the blocks in use and vacant as they were.
C10_Unknown ==
    /\ \A id \in -1..(client.last_id + 1) :
          ClientLookup(client, id) = 0 =>
              \A fail \in AnyDestroyFail :
                  ClientDestroy(World, id, fail) = Out(World, FALSE, "lookup")
    /\ \A id \in -1..(pool.last_index + 1) :
          id \notin UsedIds(pool) =>
              free(pool, id) = [pool |-> pool, ret |-> FALSE]

\* C10's case: the client holds a record and destroyed another one before,
\* and destroy with the handle of that one finds no record.
C10_Witness ==
    /\ Len(client.servers) = 1
    /\ client.servers[1].id = 1
    /\ Runs("cli") /\ ~client.gone
    /\ ClientDestroy(World, 0, "none").at = "lookup"

\* The descriptors and the addresses of the client's records.
RecordFds == {client.servers[i].fd : i \in 1..Len(client.servers)}
RecordAddrs == {client.servers[i].addr : i \in 1..Len(client.servers)}

\* C11: the destructor of a client with N records calls destroy once for
\* each of them and for nothing else; after it no record is left, the
\* mapping and the descriptor of each record, live before, are gone, and
\* every other descriptor and mapping of the system (those of records
\* destroyed before among them) and the namespace are as they were.
C11_Teardown ==
    (Runs("cli") /\ ~client.gone) =>
        \A fails \in [1..Len(client.servers) -> ClientDestroyFails] :
            LET n   == Len(client.servers)
                ids == DtorIds(World, n, fails)
                os  == ClientDtor(World, fails).w.os
            IN  /\ DtorLoop(World, n, fails).client.servers = <<>>
                /\ ids = [i \in 1..n |-> client.servers[i].id]
                /\ \A i, j \in 1..n : ids[i] = ids[j] => i = j
                /\ Cardinality(RecordFds) = n /\ Cardinality(RecordAddrs) = n
                /\ \A i \in 1..n :
                      /\ IsOpen(sys, "cli", client.servers[i].fd)
                      /\ IsMapped(sys, "cli", client.servers[i].addr)
                /\ Len(os.fds) = Len(sys.fds) /\ Len(os.maps) = Len(sys.maps)
                /\ \A f \in 1..Len(sys.fds) :
                      os.fds[f] = IF f \in RecordFds THEN Closed ELSE sys.fds[f]
                /\ \A a \in 1..Len(sys.maps) :
                      os.maps[a] = IF a \in RecordAddrs THEN Unmapped
                                   ELSE sys.maps[a]
                /\ os.names = sys.names

\* C11's case: a client that holds two records is about to be destructed.
C11_Witness ==
    /\ Runs("cli") /\ ~client.gone
    /\ Len(client.servers) = 2

\* A pool over addr that holds size bytes as its first and only block.
WholeRegion(addr, size) ==
    [addr |-> addr, in_use |-> <<Block(0, 0, size)>>, is_init |-> TRUE,
     last_index |-> 1, size |-> size, vacant |-> <<>>]

\* C12: in every reachable state the pool of a created owner and the pool
\* of every record of the client are the pool right after init and one
\* allocate of the whole capacity: one block in use, at offset 0, of the
\* party's size, no vacancy, one id issued; mem_id names that block.  No
\* later call changes it, so parties of one size address the same bytes
\* [0, size) of the region.
C12_OneBlock ==
    /\ \A o \in Owners :
          owners[o].is_init =>
              /\ owners[o].size > 0
              /\ owners[o].manager = WholeRegion(owners[o].addr, owners[o].size)
              /\ owners[o].mem_id = 0
    /\ \A i \in 1..Len(client.servers) :
          /\ client.servers[i].size > 0
          /\ client.servers[i].manager
                = WholeRegion(client.servers[i].addr, client.servers[i].size)
          /\ client.servers[i].mem_id = 0

\* C12's case: a created owner and a record of its region, of the same
\* size, attached after another record was destroyed, with bytes written.
C12_Witness ==
    \E o \in Owners :
        /\ Len(client.servers) = 1
        /\ Paired(o, 1)
        /\ client.last_id = 2
        /\ owners[o].size = 2
        /\ Bytes(sys, owners[o].addr) = <<1, 1>>

\* The names that are published, and the bytes of their objects.
Published(os) == {n \in ShmNames : os.names[n] # 0}
Region(os, n) == os.objs[os.names[n]]

\* The call leaves the namespace and the published objects' sizes as they
\* were.
KeepsNames(r) ==
    /\ r.w.os.names = sys.names
    /\ \A n \in Published(sys) : Len(Region(r.w.os, n)) = Len(Region(sys, n))

\* After the call every published region of at least one byte that the
\* client holds no record of can be attached (errno being 0 when attach is
\* called).
Attachable(r) ==
    \A n \in Published(sys) :
        (Len(Region(sys, n)) > 0 /\ ~Attached(r.w.client, n)) =>
            \A access \in AccessArgs :
                attach([r.w EXCEPT !.os.errno["cli"] = 0], n, access,
                       Len(Region(sys, n)), "none").ret

\* C13: no call of the client changes the namespace.  attach to a name that
\* is not published returns false with no record, descriptor or mapping
\* added; attach, read, write, destroy and the destructor leave every
\* published name published with its object; after a destroy or the
\* destructor the regions the client let go of can be attached again.
C13_Namespace ==
    /\ \A name \in RawNames : \A access \in AccessArgs :
       \A size \in 0..(MaxSize + 1) : \A fail \in AnyAttachFail :
          LET r == attach(World, name, access, size, fail) IN
          /\ KeepsNames(r)
          /\ (name = <<>> \/ Normalize(name) \notin Published(sys)) =>
                /\ ~r.ret
                /\ r.w.client = client
                /\ r.w.os.fds = sys.fds /\ r.w.os.maps = sys.maps
    /\ \A id \in HandleArgs :
          /\ \A fail \in AnyDestroyFail :
                KeepsNames(ClientDestroy(World, id, fail))
          /\ ClientDestroy(World, id, "none").ret
                => Attachable(ClientDestroy(World, id, "none"))
          /\ \A n \in 0..(MaxSize + 1) :
                /\ KeepsNames(ClientRead(World, id, n))
                /\ \A fail \in AnyWriteFail :
                      KeepsNames(ClientWrite(World, id, [k \in 1..n |-> 1],
                                             n, fail))
    /\ \A fails \in [1..Len(client.servers) -> ClientDestroyFails] :
          /\ KeepsNames(ClientDtor(World, fails))
          /\ Attachable([ClientDtor(World, fails) EXCEPT !.w.client = NewClient])

\* C13's case: the client attached the owner's region and destroyed its
\* record, the owner did not destroy, and the client may attach again.
C13_Witness ==
    \E o \in Owners :
        /\ owners[o].is_init
        /\ client.last_id = 1 /\ client.servers = <<>>
        /\ Runs("cli") /\ ~client.gone
        /\ Len(sys.fds) < OpenLimit
        /\ owners[o].name \in Published(sys)
        /\ attach(World, owners[o].name, "read_write", owners[o].size, "none").ret

\* The steps a failing system call may be told to fail at, for the owner.
AnyCreateFail == {"none", "shm_open", "ftruncate", "mmap"}
AnyOwnerDestroyFail == {"none", "munmap", "shm_unlink", "close"}

\* C14: on an owner that is not created (never, or destroyed, or left so by
\* a create that failed) read, write and destroy return false at their
\* first check and nothing changes, in the owner or in the system; create
\* on a created owner returns false and nothing changes; create with an
\* empty name returns false and nothing changes.
C14_OwnerState ==
    \A o \in Owners :
        /\ ~owners[o].is_init =>
              /\ \A fail \in AnyOwnerDestroyFail :
                    RemoteDestroy(World, o, fail) = Out(World, FALSE, "init")
              /\ \A n \in 0..(MaxSize + 1) :
                    /\ RemoteRead(World, o, n) = Out(World, FALSE, "init")
                    /\ \A buf \in [1..n -> Byte] : \A fail \in AnyWriteFail :
                          RemoteWrite(World, o, buf, n, fail)
                              = Out(World, FALSE, "init")
        /\ \A access \in Access : \A size \in 0..(MaxSize + 1) :
           \A fail \in AnyCreateFail :
              /\ owners[o].is_init =>
                    \A name \in RawNames :
                        create(World, o, name, access, size, fail)
                            = Out(World, FALSE, "init")
              /\ create(World, o, <<>>, access, size, fail)
                    = Out(World, FALSE, "init")

\* C14's case: an owner that was created and destroyed, its name no longer
\* published, is still there to be called.
C14_Witness ==
    \E o \in Owners :
        /\ ~owners[o].is_init /\ ~owners[o].gone
        /\ Runs("srv")
        /\ owners[o].manager.is_init
        /\ owners[o].size = 2
        /\ owners[o].name \notin Published(sys)
        /\ RemoteDestroy(World, o, "none").at = "init"

\* C15: a write call of the owner or of the client that returns false, at
\* whichever step, leaves the bytes of every region as they were, so that
\* no reader on another mapping sees any of its payload.
C15_FailedWriteHidden ==
    \A n \in 0..(MaxSize + 1) : \A buf \in [1..n -> Byte] :
    \A fail \in AnyWriteFail :
        /\ \A o \in Owners :
              LET r == RemoteWrite(World, o, buf, n, fail) IN
              ~r.ret => r.w.os.objs = sys.objs
        /\ \A id \in HandleArgs :
              LET r == ClientWrite(World, id, buf, n, fail) IN
              ~r.ret => r.w.os.objs = sys.objs

\* C16: the ids in in_use are distinct, at least 0 and below the counter;
\* every vacancy has id -1; a successful allocate returns the counter and
\* advances it by one, with or without defrag, so the ids issued are 0, 1,
\* 2, ... and none comes back; a failed allocate and every free leave the
\* counter as it was.
C16_Ids ==
    /\ ~pool.is_init => pool.last_index = 0 /\ pool.in_use = <<>>
    /\ \A i, j \in 1..Len(pool.in_use) :
          /\ pool.in_use[i].id \in 0..(pool.last_index - 1)
          /\ pool.in_use[i].id = pool.in_use[j].id => i = j
    /\ \A i \in 1..Len(pool.vacant) : pool.vacant[i].id = -1
    /\ \A size \in 0..(pool.size + 1) : \A modes \in ModeArgs(pool, size) :
          LET r == allocate(pool, mem, size, modes) IN
          /\ r.ret # -1 =>
                /\ r.ret = pool.last_index
                /\ r.pool.last_index = pool.last_index + 1
          /\ r.ret = -1 => r.pool.last_index = pool.last_index
    /\ \A id \in -1..pool.last_index :
          free(pool, id).pool.last_index = pool.last_index
    /\ \A addr \in Addrs : \A size \in 0..MaxCap :
          init(pool, addr, size).pool.last_index = pool.last_index

\* C16's case: after ids 0 and 1 were issued and freed, an allocate that
\* defragmented has just been given id 2.
C16_Witness ==
    /\ last.op = "allocate" /\ last.ok /\ last.at = "defrag_fit"
    /\ pool.last_index = 3
    /\ UsedIds(pool) = {2}

\* C17: the handles of the records are distinct, at least 0 and below
\* _last_id; a successful attach gives its record the handle _last_id and
\* advances _last_id by one; a failed attach and every destroy leave
\* _last_id as it was; read, write and destroy with a handle below _last_id
\* that has no record return false at lookup and change nothing.
C17_Handles ==
    /\ \A i, j \in 1..Len(client.servers) :
          /\ client.servers[i].id \in 0..(client.last_id - 1)
          /\ client.servers[i].id = client.servers[j].id => i = j
    /\ \A name \in RawNames : \A access \in AccessArgs :
       \A size \in 0..(MaxSize + 1) : \A fail \in AnyAttachFail :
          LET r == attach(World, name, access, size, fail) IN
          IF r.ret
          THEN /\ r.w.client.last_id = client.last_id + 1
               /\ Len(r.w.client.servers) = Len(client.servers) + 1
               /\ SubSeq(r.w.client.servers, 1, Len(client.servers))
                     = client.servers
               /\ r.w.client.servers[Len(client.servers) + 1].id
                     = client.last_id
          ELSE r.w.client = client
    /\ \A id \in -1..client.last_id :
          /\ \A fail \in AnyDestroyFail :
                ClientDestroy(World, id, fail).w.client.last_id
                    = client.last_id
          /\ (\A i \in 1..Len(client.servers) : client.servers[i].id # id) =>
                \A n \in 0..(MaxSize + 1) :
                    /\ ClientRead(World, id, n) = Out(World, FALSE, "lookup")
                    /\ \A buf \in [1..n -> Byte] : \A fail \in AnyWriteFail :
                          ClientWrite(World, id, buf, n, fail)
                              = Out(World, FALSE, "lookup")
                    /\ \A fail \in AnyDestroyFail :
                          ClientDestroy(World, id, fail)
                              = Out(World, FALSE, "lookup")

\* C17's case: handle 0 was issued for /a and its record destroyed, /a was
\* attached again under handle 1; a write with handle 0 finds no record, a
\* write with handle 1 succeeds.
C17_Witness ==
    /\ client.last_id = 2
    /\ Len(client.servers) = 1
    /\ client.servers[1].name = <<"/", "a">>
    /\ Runs("cli") /\ ~client.gone
    /\ ClientWrite(World, 0, <<1>>, 1, "none").at = "lookup"
    /\ ClientWrite(World, 1, <<1>>, 1, "none").ret

\* The positions in vacant of the vacancies of at least size bytes.
Fits(p, size) == {i \in 1..Len(p.vacant) : p.vacant[i].size >= size}

\* A list without its element at position i.
Without(list, i) == SubSeq(list, 1, i - 1) \o SubSeq(list, i + 1, Len(list))

\* C18: when some vacancy holds size bytes, allocate(size) takes the first
\* such vacancy in list order: it returns the counter, appends to in_use a
\* block of size bytes at the vacancy's offset, moves the vacancy up by
\* size and shrinks it by size, or removes it when nothing remains, and
\* leaves every other block and every byte of the buffer as they were (no
\* defrag).  When there are vacancies and none holds size bytes, the pool
\* and the buffer are those of one defrag pass, followed by the allocation
\* from its vacancy when that one fits; with no vacancy at all the call
\* fails and nothing changes.
C18_FirstFit ==
    pool.is_init =>
        \A size \in 1..pool.size :
        \A modes \in [1..Len(pool.in_use) -> CopyModes] :
            LET r == allocate(pool, mem, size, modes) IN
            IF Fits(pool, size) # {}
            THEN LET i == CHOOSE k \in Fits(pool, size) :
                              \A j \in Fits(pool, size) : k <= j
                     v == pool.vacant[i]
                 IN  /\ r.ret = pool.last_index
                     /\ r.mem = mem
                     /\ r.pool.in_use
                           = Append(pool.in_use,
                                    Block(pool.last_index, v.offset, size))
                     /\ r.pool.vacant
                           = IF v.size > size
                             THEN [pool.vacant EXCEPT
                                     ![i] = Block(-1, v.offset + size,
                                                  v.size - size)]
                             ELSE Without(pool.vacant, i)
                     /\ r.pool.size = pool.size /\ r.pool.addr = pool.addr
            ELSE IF pool.vacant = <<>>
            THEN r = [pool |-> pool, mem |-> mem, ret |-> -1]
            ELSE LET d == defrag(pool, mem, modes) IN
                 /\ r.mem = d.mem
                 /\ IF pool.size - SumSizes(pool.in_use) >= size
                    THEN /\ r.ret = pool.last_index
                         /\ r.pool.in_use
                               = Append(d.pool.in_use,
                                        Block(pool.last_index,
                                              SumSizes(pool.in_use), size))
                    ELSE /\ r.ret = -1
                         /\ r.pool = d.pool

\* C18's case: with the vacancy at offset 2 before the vacancy at offset 1
\* in the list, allocate(1) has just taken the one at offset 2.
C18_Witness ==
    /\ last.op = "allocate" /\ last.ok /\ last.at = "fit"
    /\ pool.in_use = <<Block(0, 0, 1), Block(2, 2, 1)>>
    /\ pool.vacant = <<Block(-1, 1, 1)>>

\* The blocks of a list without their offsets, in list order.
IdsAndSizes(blocks) ==
    [i \in 1..Len(blocks) |-> [id |-> blocks[i].id, size |-> blocks[i].size]]

\* C19: a defrag pass keeps the ids, the sizes and the order of the blocks
\* in use, adds none and removes none, and changes nothing of the pool but
\* offsets and vacant; so does a failed allocate that ran it, and a
\* successful one adds its own block behind them.
C19_DefragFrame ==
    pool.is_init =>
        /\ \A modes \in [1..Len(pool.in_use) -> CopyModes] :
              LET d == defrag(pool, mem, modes).pool IN
              /\ IdsAndSizes(d.in_use) = IdsAndSizes(pool.in_use)
              /\ [d EXCEPT !.in_use = pool.in_use, !.vacant = pool.vacant]
                    = pool
        /\ \A size \in 1..pool.size :
              (pool.vacant # <<>> /\ Fits(pool, size) = {}) =>
                  \A modes \in [1..Len(pool.in_use) -> CopyModes] :
                      LET r == allocate(pool, mem, size, modes) IN
                      IdsAndSizes(r.pool.in_use)
                          = IF r.ret = -1 THEN IdsAndSizes(pool.in_use)
                            ELSE Append(IdsAndSizes(pool.in_use),
                                        [id |-> r.ret, size |-> size])

\* C19's case: an allocate has just defragmented; the block with id 1,
\* allocated behind block 0, now lies at offset 0 and is still first.
C19_Witness ==
    /\ last.op = "allocate" /\ last.at = "defrag_fit"
    /\ Len(pool.in_use) = 2
    /\ pool.in_use[1] = Block(1, 0, 1)
    /\ pool.in_use[2] = Block(2, 1, 2)

\* The bytes of every block in use, by id.
Contents(p, m) ==
    [id \in UsedIds(p) |->
        LET b == p.in_use[lookup(p, id)] IN CopyOut(m, b.offset, b.size)]

\* C20: the bytes of a block in use are the same after an allocate call,
\* successful or failed, with or without defrag, and after a free of
\* another block, so a read after any sequence of such calls returns what
\* was last written to the block.
C20_ContentsSurvive ==
    pool.is_init =>
        /\ \A size \in 0..(pool.size + 1) : \A modes \in ModeArgs(pool, size) :
              LET r == allocate(pool, mem, size, modes) IN
              \A id \in UsedIds(pool) :
                  Contents(r.pool, r.mem)[id] = Contents(pool, mem)[id]
        /\ \A gone \in UsedIds(pool) : \A id \in UsedIds(pool) \ {gone} :
              Contents(free(pool, gone).pool, mem)[id] = Contents(pool, mem)[id]

(* ---------------------------------------------------------------------- *)
(* Pins, owner cycling, errno                                              *)
(* ---------------------------------------------------------------------- *)

\* Whether the process holds a pin on the mapping at addr.
Pinned(os, proc, addr) == IsMapped(os, proc, addr) /\ os.maps[addr].locked

\* C21: when a write call of the owner or of the client returns, with true
\* or with false, and the system refused none of its calls or only the
\* flush, the mapping it works on is not pinned; in particular not after
\* a write of more bytes than the block holds.
C21_PinsReleased ==
    \A n \in 0..(MaxSize + 1) : \A fail \in {"none", "msync"} :
        LET buf == [k \in 1..n |-> 1] IN
        /\ \A o \in Owners :
              owners[o].is_init =>
                  ~Pinned(RemoteWrite(World, o, buf, n, fail).w.os, "srv",
                          owners[o].addr)
        /\ \A i \in 1..Len(client.servers) :
              ~Pinned(ClientWrite(World, client.servers[i].id, buf, n, fail).w.os,
                      "cli", client.servers[i].addr)

\* C22: in the step in which destroy succeeds on a created owner, the owner
\* can be created again: create with a non-empty name that is not
\* published, a size of at least 1 and no call refused by the system
\* (errno being 0) returns true and leaves the owner created, its manager
\* holding one in-use block over the whole new region; and a create that
\* returns false publishes no name.
C22_Cycle ==
    [][\A o \in Owners :
          (owners[o].is_init /\ ~owners'[o].is_init /\ ~owners'[o].gone) =>
              \A name \in RawNames \ {<<>>} : \A access \in AccessArgs :
              \A size \in 1..MaxSize :
                  (/\ Normalize(name) \notin Published(sys')
                   /\ sys'.errno["srv"] = 0) =>
                      LET r == create(WorldNext, o, name, access, size, "none")
                          m == r.w.owners[o].manager
                      IN  /\ r.ret
                          /\ r.w.owners[o].is_init
                          /\ Len(m.in_use) = 1
                          /\ m.in_use[1].offset = 0
                          /\ m.in_use[1].size = size
                          /\ m.vacant = <<>>]_vars

\* C23: an attach with a non-empty name the client holds no record of,
\* whose own shm_open and mmap both succeed, returns true and stores a
\* record for the name, whatever errno was before the call; a create whose
\* own shm_open, ftruncate and mmap succeed does not return false at the
\* test that follows mmap.
C23_OwnCallsOnly ==
    \A name \in RawNames \ {<<>>} : \A access \in AccessArgs :
    \A size \in 0..MaxSize :
        /\ (Runs("cli") /\ ~client.gone /\ ~Attached(client, Normalize(name))) =>
              LET op == shm_open(sys, "cli", Normalize(name), FALSE)
                  mp == mmap(op.os, "cli", size, Prot(access), op.ret, FALSE)
                  r  == attach(World, name, access, size, "none")
              IN  (op.ret # -1 /\ mp.ret # MAP_FAILED) =>
                      /\ r.ret
                      /\ Len(r.w.client.servers) = Len(client.servers) + 1
                      /\ Attached(r.w.client, Normalize(name))
        /\ \A o \in Owners :
              (Runs("srv") /\ ~owners[o].gone /\ ~owners[o].is_init) =>
                  LET op == shm_create(sys, "srv", Normalize(name), FALSE)
                      tr == ftruncate(op.os, "srv", op.ret, size, FALSE)
                      mp == mmap(tr.os, "srv", size, "rw", op.ret, FALSE)
                  IN  (op.ret # -1 /\ tr.ret # -1 /\ mp.ret # MAP_FAILED) =>
                          create(World, o, name, access, size, "none").at # "mmap"

=============================================================================
